---- MODULE Spec2Model ----
(***************************************************************************)
(* A model of the Sigma signing context (src/src/index.ts, the @bsv/sdk    *)
(* implementation, lines 269-842): the hash chain, the script instance     *)
(* codec, the signing orchestrator and the verification engine.            *)
(*                                                                         *)
(* Every byte string of the program is a sequence of integers.  SHA-256,   *)
(* the signature schemes and the text encodings are symbolic: each is an   *)
(* injective tagging of its input (a negative tag, then the payload), so   *)
(* that two values are equal exactly when they were built the same way.    *)
(***************************************************************************)
EXTENDS Integers, Sequences, FiniteSets, TLC

(***************************************************************************)
(* Bounds of the model.                                                    *)
(***************************************************************************)
\* successful sign / remoteSign calls in one behaviour
MaxSigns == 2
\* changes the caller makes to the wrapped transaction in one behaviour
MaxEdits == 1
\* constructor and setter calls in one behaviour
MaxSetups == 1
\* inputs of a transaction
MaxInputs == 2

(***************************************************************************)
(* Program constants.                                                      *)
(***************************************************************************)
OP_0 == 0
OP_PUSHDATA1 == 76
OP_DUP == 118
OP_IF == 99
OP_ENDIF == 104
OP_RETURN == 106
\* the separator token "7c" of _applySignature: the byte of the pipe character
PIPE == 124
\* "SIGMA" in UTF-8
SIGMA_PREFIX == <<83, 73, 71, 77, 65>>
\* Algorithm.BSM and Algorithm.BRC77 in UTF-8
AlgBSM == <<66, 83, 77>>
AlgBRC77 == <<66, 82, 67, 55, 55>>
\* Number.parseInt's NaN
NaN == -1000000
\* length of the placeholder the input hash falls back to
DummyLen == 32

(***************************************************************************)
(* Symbolic primitives.                                                    *)
(***************************************************************************)
\* Hash.sha256: injective; the length makes a concatenation of two hashes
\* split in one way only
Sha256(bytes) == <<-1, Len(bytes)>> \o bytes

\* Utils.toHex and Utils.toArray(_, "hex")
ToHex(bytes) == <<-16>> \o bytes
FromHex(str) == IF Len(str) >= 1 /\ str[1] = -16 THEN Tail(str) ELSE <<>>

\* Utils.toBase64 and Utils.toArray(_, "base64")
ToBase64(bytes) == <<-64>> \o bytes
IsBase64(str) == Len(str) >= 1 /\ str[1] = -64
FromBase64(str) == IF IsBase64(str) THEN Tail(str) ELSE <<>>

\* PrivateKey.toAddress, as the UTF-8 text of the address ("1", then the key)
AddressOf(key) == <<49, key>>

\* the (r, s) pair of an ECDSA signature by key over the magic hash of message
EcdsaSig(key, message) == <<-2, key, Len(message)>> \o message
IsEcdsaSig(core) == Len(core) >= 3 /\ core[1] = -2 /\ Len(core) = 3 + core[3]
EcdsaKey(core) == core[2]
EcdsaMsg(core) == SubSeq(core, 4, Len(core))

\* Signature.CalculateRecoveryFactor: fixed by the key and the digest
RecoveryFactor(key, message) == (key + Len(message)) % 2

\* Signature.toCompact(recovery, true, _): the header byte, then (r, s)
ToCompact(core, recovery) == <<27 + recovery + 4>> \o core

\* Signature.fromCompact accepts 65 bytes with a header byte in 27..34, and
\* keeps (r, s) only
IsCompact(bytes) ==
  Len(bytes) >= 1 /\ bytes[1] >= 27 /\ bytes[1] < 35 /\ IsEcdsaSig(Tail(bytes))
FromCompact(bytes) == Tail(bytes)

\* public keys: of a private key, or a candidate that recovery yields from a
\* signature, a recovery id and a digest it was not made with
PubKeyOf(key) == <<-5, key>>
CandidateKey(core, recovery, message) ==
  <<-6, recovery, Len(core)>> \o core \o message

\* PublicKey.toAddress
ToAddress(pub) == IF pub[1] = -5 THEN AddressOf(pub[2]) ELSE <<-7>> \o pub

\* Signature.RecoverPublicKey; it throws for the ids 2 and 3
RecoverThrows(core, recovery, message) == recovery >= 2
RecoverPublicKey(core, recovery, message) ==
  IF EcdsaMsg(core) = message /\ recovery = RecoveryFactor(EcdsaKey(core), message)
  THEN PubKeyOf(EcdsaKey(core))
  ELSE CandidateKey(core, recovery, message)

\* BSM.verify(message, signature, publicKey)
BsmVerify(message, core, pub) ==
  \/ pub = PubKeyOf(EcdsaKey(core)) /\ EcdsaMsg(core) = message
  \/ \E r \in 0..3 : pub = CandidateKey(core, r, message)

\* SignedMessage.sign(message, key, verifier): version, signer, verifier (0:
\* anyone), signature over the message
Brc77Sig(key, verifier, message) == <<-4, key, verifier, Len(message)>> \o message
IsBrc77(blob) == Len(blob) >= 4 /\ blob[1] = -4 /\ Len(blob) = 4 + blob[4]
Brc77Verifier(blob) == blob[3]
Brc77Msg(blob) == SubSeq(blob, 5, Len(blob))

\* a call argument that was not given (undefined)
Undefined == -1

\* SignedMessage.verify(message, sig, recipient): "true", "false" or "throw"
SignedMessageVerify(message, blob, recipient) ==
  IF ~IsBrc77(blob) THEN "throw"
  ELSE IF Brc77Verifier(blob) # 0
          /\ (recipient = Undefined \/ recipient # Brc77Verifier(blob))
       THEN "throw"
  ELSE IF Brc77Msg(blob) = message THEN "true" ELSE "false"

(***************************************************************************)
(* Scripts (the @bsv/sdk Script the code reads and writes).  A chunk is an *)
(* opcode, with the bytes it pushes when hasData.  An OP_RETURN chunk with *)
(* data is the nested form: its data is the rest of the script, unparsed.  *)
(***************************************************************************)
Min(a, b) == IF a < b THEN a ELSE b

OpChunk(op) == [op |-> op, data |-> <<>>, hasData |-> FALSE]

\* the push opcode of Script.writeBin and Script.fromASM for n bytes
PushOp(n) == IF n < OP_PUSHDATA1 THEN n ELSE OP_PUSHDATA1

\* Script.writeBin(bytes), and an ASM hex token
DataChunk(bytes) == [op |-> PushOp(Len(bytes)), data |-> bytes, hasData |-> TRUE]

\* c.data as a JavaScript condition: an array, even an empty one, is truthy
Truthy(chunk) == chunk.hasData

IsMarker(chunk) == chunk.hasData /\ chunk.data = SIGMA_PREFIX

IsNested(chunk) == chunk.op = OP_RETURN /\ chunk.hasData /\ Len(chunk.data) > 0

\* Script.toBinary: an OP_RETURN chunk with data is written raw and ends the script
RECURSIVE ToBinaryFrom(_, _)
ToBinaryFrom(chunks, i) ==
  IF i > Len(chunks) THEN <<>>
  ELSE LET c == chunks[i] IN
       IF c.op = OP_RETURN /\ c.hasData THEN <<c.op>> \o c.data
       ELSE IF ~c.hasData THEN <<c.op>> \o ToBinaryFrom(chunks, i + 1)
       ELSE IF c.op = OP_PUSHDATA1
            THEN <<c.op, Len(c.data)>> \o c.data \o ToBinaryFrom(chunks, i + 1)
            ELSE <<c.op>> \o c.data \o ToBinaryFrom(chunks, i + 1)

ToBinary(chunks) == ToBinaryFrom(chunks, 1)

\* Script.fromBinary: an OP_RETURN outside a conditional block takes the rest
\* of the bytes as its data
RECURSIVE FromBinaryAt(_, _, _)
FromBinaryAt(bytes, p, depth) ==
  IF p > Len(bytes) THEN <<>>
  ELSE LET op == bytes[p] IN
       IF op = OP_RETURN /\ depth = 0
       THEN <<[op |-> op, data |-> SubSeq(bytes, p + 1, Len(bytes)), hasData |-> TRUE]>>
       ELSE IF op > 0 /\ op < OP_PUSHDATA1
       THEN <<[op |-> op, data |-> SubSeq(bytes, p + 1, Min(p + op, Len(bytes))),
               hasData |-> TRUE]>>
            \o FromBinaryAt(bytes, p + 1 + op, depth)
       ELSE IF op = OP_PUSHDATA1
       THEN LET n == IF p + 1 <= Len(bytes) THEN bytes[p + 1] ELSE 0 IN
            <<[op |-> op, data |-> SubSeq(bytes, p + 2, Min(p + 1 + n, Len(bytes))),
               hasData |-> TRUE]>>
            \o FromBinaryAt(bytes, p + 2 + n, depth)
       ELSE <<OpChunk(op)>>
            \o FromBinaryAt(bytes, p + 1,
                 IF op = OP_IF THEN depth + 1
                 ELSE IF op = OP_ENDIF THEN depth - 1 ELSE depth)

FromBinary(bytes) == FromBinaryAt(bytes, 1, 0)

(***************************************************************************)
(* ASM text, as the list of its space-separated tokens: the name of an     *)
(* opcode, or the hex of pushed data.                                      *)
(***************************************************************************)
OpToken(op) == [isOp |-> TRUE, op |-> op, hex |-> <<>>]
HexToken(bytes) == [isOp |-> FALSE, op |-> 0, hex |-> ToHex(bytes)]

\* Script.toASM().split(" "): one token per chunk, the hex of the data for
\* every chunk that has data; the empty script gives the one token ""
ToASM(chunks) ==
  IF chunks = <<>> THEN <<HexToken(<<>>)>>
  ELSE [i \in 1..Len(chunks) |->
         IF chunks[i].hasData THEN HexToken(chunks[i].data) ELSE OpToken(chunks[i].op)]

\* Script.fromASM of the joined tokens
FromASM(tokens) ==
  [i \in 1..Len(tokens) |->
     IF tokens[i].isOp THEN OpChunk(tokens[i].op) ELSE DataChunk(FromHex(tokens[i].hex))]

(***************************************************************************)
(* Number <-> decimal text.                                                *)
(***************************************************************************)
IsDigit(b) == b >= 48 /\ b <= 57

\* n.toString() in UTF-8
RECURSIVE NatToDecimal(_)
NatToDecimal(n) ==
  IF n < 10 THEN <<48 + n>> ELSE NatToDecimal(n \div 10) \o <<48 + (n % 10)>>

ToDecimal(n) == IF n < 0 THEN <<45>> \o NatToDecimal(0 - n) ELSE NatToDecimal(n)

\* the digits Number.parseInt reads from position i on
RECURSIVE DigitsFrom(_, _, _)
DigitsFrom(bytes, i, acc) ==
  IF i > Len(bytes) \/ ~IsDigit(bytes[i]) THEN acc
  ELSE DigitsFrom(bytes, i + 1, 10 * acc + (bytes[i] - 48))

\* Number.parseInt(text, 10): an optional sign, then digits up to the first
\* other character; NaN when there is no digit
ParseInt10(bytes) ==
  LET signed == Len(bytes) >= 1 /\ (bytes[1] = 45 \/ bytes[1] = 43)
      start == IF signed THEN 2 ELSE 1
  IN IF start > Len(bytes) \/ ~IsDigit(bytes[start]) THEN NaN
     ELSE IF signed /\ bytes[1] = 45 THEN 0 - DigitsFrom(bytes, start, 0)
     ELSE DigitsFrom(bytes, start, 0)

(***************************************************************************)
(* Script instance codec.                                                  *)
(***************************************************************************)
\* no Sig: null or undefined
NoSig ==
  [some |-> FALSE, algorithm |-> <<>>, address |-> <<>>, signature |-> <<>>,
   vin |-> 0, targetVout |-> 0]

\* the record pushed at lines 363-369 and 393-399
InstanceAt(chunks, i, targetVout) ==
  [some |-> TRUE,
   algorithm |-> chunks[i + 1].data,
   address |-> chunks[i + 2].data,
   signature |-> ToBase64(chunks[i + 3].data),
   vin |-> ParseInt10(chunks[i + 4].data),
   targetVout |-> targetVout]

\* a window test that asks for one chunk after the fifth field
HasFieldsAndOneMore(chunks, i) ==
  /\ i + 5 <= Len(chunks)
  /\ \A d \in 1..4 : Truthy(chunks[i + d])

\* the marker at i has its four fields: i + 4 < chunks.length, each with data
HasFields(chunks, i) ==
  /\ i + 4 <= Len(chunks)
  /\ \A d \in 1..4 : Truthy(chunks[i + d])

\* the scan of an OP_RETURN payload, lines 381-404
RECURSIVE ParseInner(_, _, _)
ParseInner(chunks, j, targetVout) ==
  IF j > Len(chunks) THEN <<>>
  ELSE IF IsMarker(chunks[j]) /\ HasFields(chunks, j)
       THEN <<InstanceAt(chunks, j, targetVout)>> \o ParseInner(chunks, j + 5, targetVout)
       ELSE ParseInner(chunks, j + 1, targetVout)

RECURSIVE ParseFrom(_, _, _)
ParseFrom(chunks, i, targetVout) ==
  IF i > Len(chunks) THEN <<>>
  ELSE IF IsMarker(chunks[i])
       THEN IF HasFields(chunks, i)
            THEN <<InstanceAt(chunks, i, targetVout)>> \o ParseFrom(chunks, i + 5, targetVout)
            ELSE ParseFrom(chunks, i + 1, targetVout)
       ELSE IF IsNested(chunks[i])
            THEN ParseInner(FromBinary(chunks[i].data), 1, targetVout)
                 \o ParseFrom(chunks, i + 1, targetVout)
            ELSE ParseFrom(chunks, i + 1, targetVout)

parseSigmaInstances(script, targetVout) == ParseFrom(script, 1, targetVout)

countSigmaInstances(script) == Len(parseSigmaInstances(script, 0))

\* the marker chunks of an OP_RETURN payload
MarkerCount(chunks) == Cardinality({j \in 1..Len(chunks) : IsMarker(chunks[j])})

\* findSigmaPosition: the 0-based chunk index, or -1
RECURSIVE FindFrom(_, _, _, _)
FindFrom(chunks, i, occurrences, instanceIndex) ==
  IF i > Len(chunks) THEN -1
  ELSE IF IsMarker(chunks[i])
       THEN IF occurrences = instanceIndex THEN i - 1
            ELSE FindFrom(chunks, i + 1, occurrences + 1, instanceIndex)
       ELSE IF IsNested(chunks[i])
            THEN LET n == MarkerCount(FromBinary(chunks[i].data)) IN
                 IF instanceIndex >= occurrences /\ instanceIndex < occurrences + n
                 THEN i - 1
                 ELSE FindFrom(chunks, i + 1, occurrences + n, instanceIndex)
            ELSE FindFrom(chunks, i + 1, occurrences, instanceIndex)

findSigmaPosition(script, instanceIndex) == FindFrom(script, 1, 0, instanceIndex)

(***************************************************************************)
(* Transactions.  An input is its outpoint: sourceTXID as the list of its  *)
(* hex digits (empty when the txid is not known) and sourceOutputIndex.    *)
(***************************************************************************)
\* hexToBytes: one byte per two hex digits
RECURSIVE hexToBytes(_)
hexToBytes(hex) ==
  IF Len(hex) = 0 THEN <<>>
  ELSE IF Len(hex) = 1 THEN <<hex[1]>>
  ELSE <<16 * hex[1] + hex[2]>> \o hexToBytes(SubSeq(hex, 3, Len(hex)))

\* JavaScript's x >> n and x & 0xff, for the indexes below 2^31 that the
\* model's integers hold (ToInt32 is the identity on them)
Shr(v, n) == v \div (2 ^ n)
And255(v) == v % 256

\* the index written most significant byte first
writeUint32BE(value) ==
  <<And255(Shr(value, 24)), And255(Shr(value, 16)), And255(Shr(value, 8)),
    And255(value)>>

writeUint32LE(value) ==
  <<And255(value), And255(Shr(value, 8)), And255(Shr(value, 16)),
    And255(Shr(value, 24))>>

(***************************************************************************)
(* The signing context.  c is the record of a Sigma object's fields.       *)
(***************************************************************************)
\* this._transaction.outputs[this._targetVout] is defined
HasTarget(c) == c.targetVout >= 0 /\ c.targetVout < Len(c.transaction.outputs)

TargetScript(c) == c.transaction.outputs[c.targetVout + 1].lockingScript

\* vin of getInputHash, _sign and _signBRC77
ResolveVin(c) == IF c.refVin = -1 THEN c.targetVout ELSE c.refVin

getInputHashByVin(c, vin) ==
  LET inputs == c.transaction.inputs IN
  IF vin >= 0 /\ vin < Len(inputs) /\ Len(inputs[vin + 1].sourceTXID) > 0
  THEN Sha256(hexToBytes(inputs[vin + 1].sourceTXID)
              \o writeUint32LE(inputs[vin + 1].sourceOutputIndex))
  ELSE Sha256([i \in 1..DummyLen |-> 0])

\* a getInputHash that answers from the cached value once there is one
getInputHashMemoized(c) ==
  IF c.inputHash # <<>> THEN c.inputHash ELSE getInputHashByVin(c, ResolveVin(c))

getInputHash(c) == getInputHashByVin(c, ResolveVin(c))

\* Array.prototype.slice(0, end)
Slice0(seq, end) ==
  LET e == IF end < 0 THEN (IF Len(seq) + end < 0 THEN 0 ELSE Len(seq) + end)
           ELSE Min(end, Len(seq))
  IN SubSeq(seq, 1, e)

\* the script getDataHash rebuilds from the chunks it kept, lines 738-745
DataScript(dataChunks) ==
  [i \in 1..Len(dataChunks) |->
     IF ~dataChunks[i].hasData THEN OpChunk(dataChunks[i].op)
     ELSE DataChunk(dataChunks[i].data)]

\* the loop of getDataHash: the chunks it hashes for instance k, found = FALSE
\* when it falls through to the whole script
RECURSIVE DataCutFrom(_, _, _, _)
DataCutFrom(chunks, i, occurrences, k) ==
  IF i > Len(chunks) THEN [found |-> FALSE, chunks |-> <<>>]
  ELSE IF IsMarker(chunks[i])
       THEN IF occurrences = k
            THEN [found |-> TRUE, chunks |-> Slice0(chunks, (i - 1) - 1)]
            ELSE DataCutFrom(chunks, i + 1, occurrences + 1, k)
       ELSE IF IsNested(chunks[i])
            THEN LET n == MarkerCount(FromBinary(chunks[i].data)) IN
                 IF k >= occurrences /\ k < occurrences + n
                 THEN [found |-> TRUE, chunks |-> Slice0(chunks, i - 1)]
                 ELSE DataCutFrom(chunks, i + 1, occurrences + n, k)
            ELSE DataCutFrom(chunks, i + 1, occurrences, k)

\* getDataHash of a script for instance k
DataHashOf(script, k) ==
  LET cut == DataCutFrom(script, 1, 0, k) IN
  IF cut.found THEN Sha256(ToBinary(DataScript(cut.chunks)))
  ELSE Sha256(ToBinary(script))

\* getDataHash; it throws when the target output does not exist
getDataHash(c) == DataHashOf(TargetScript(c), c.sigmaInstance)

\* getMessageHash; it throws when a cached hash is not set
HashesSet(c) == c.inputHash # <<>> /\ c.dataHash # <<>>
getMessageHash(c) == Sha256(c.inputHash \o c.dataHash)

\* the sig getter
sig(c) ==
  IF ~HasTarget(c) THEN c.sig
  ELSE LET instances == parseSigmaInstances(TargetScript(c), c.targetVout) IN
       IF Len(instances) = 0 THEN c.sig
       ELSE IF c.sigmaInstance >= 0 /\ c.sigmaInstance < Len(instances)
            THEN instances[c.sigmaInstance + 1]
            ELSE NoSig

getSigInstanceCount(c) ==
  IF ~HasTarget(c) THEN 0 ELSE countSigmaInstances(TargetScript(c))

getSigInstancePosition(c) ==
  IF ~HasTarget(c) THEN -1 ELSE findSigmaPosition(TargetScript(c), c.sigmaInstance)

(***************************************************************************)
(* Verification.                                                           *)
(***************************************************************************)
\* deduceRecovery: the first recovery id (from id on) whose recovered key
\* validates the signature and gives the address, or -1
\* a search that makes one attempt only
DeduceOnce(core, message, address, recovery) ==
  IF ~RecoverThrows(core, recovery, message)
     /\ BsmVerify(message, core, RecoverPublicKey(core, recovery, message))
     /\ ToAddress(RecoverPublicKey(core, recovery, message)) = address
  THEN recovery ELSE -1

RECURSIVE DeduceFrom(_, _, _, _)
DeduceFrom(core, message, address, recovery) ==
  IF recovery >= 4 THEN -1
  ELSE IF ~RecoverThrows(core, recovery, message)
          /\ BsmVerify(message, core, RecoverPublicKey(core, recovery, message))
          /\ ToAddress(RecoverPublicKey(core, recovery, message)) = address
       THEN recovery
       ELSE DeduceFrom(core, message, address, recovery + 1)

deduceRecovery(core, message, address) == DeduceFrom(core, message, address, 0)

\* verify(recipientPrivateKey): "true", "false", or the error it throws
verify(c, recipient) ==
  LET s == sig(c) IN
  IF ~s.some THEN "NoSignature"
  ELSE IF ~HashesSet(c) THEN "MissingState"
  ELSE IF s.algorithm = AlgBRC77
       THEN SignedMessageVerify(getMessageHash(c), FromBase64(s.signature), recipient)
  ELSE IF ~IsBase64(s.signature) \/ ~IsCompact(FromBase64(s.signature)) THEN "throw"
  ELSE IF deduceRecovery(FromCompact(FromBase64(s.signature)), getMessageHash(c),
                         s.address) # -1
       THEN "true" ELSE "false"

(***************************************************************************)
(* Signing.                                                                *)
(***************************************************************************)
\* Array.prototype.splice(start, deleteCount, ...items)
Splice(seq, start, deleteCount, items) ==
  LET s == Min(start, Len(seq))
      d == Min(deleteCount, Len(seq) - s)
  IN SubSeq(seq, 1, s) \o items \o SubSeq(seq, s + d + 1, Len(seq))

\* new Transaction(version, inputs, outputs) with outputs[targetVout] replaced:
\* the lock time is the constructor's default
SignedTx(c, newScript) ==
  [version |-> c.transaction.version,
   inputs |-> c.transaction.inputs,
   outputs |-> [c.transaction.outputs EXCEPT ![c.targetVout + 1] =
                  [satoshis |-> c.transaction.outputs[c.targetVout + 1].satoshis,
                   lockingScript |-> newScript]],
   lockTime |-> 0]

\* the transaction object the context held, after _applySignature: it is read,
\* never written
HeldAfterSign(c) == c.transaction

\* the tokens _applySignature keeps of the existing script, lines 522-534
ExistingAsm(c, signedAsm) ==
  LET asm == ToASM(TargetScript(c))
      sigIndex == getSigInstancePosition(c)
  IN IF sig(c).some /\ c.sigmaInstance = getSigInstanceCount(c) /\ sigIndex # -1
     THEN Splice(asm, sigIndex, 5, signedAsm)
     ELSE asm

Separator(c) ==
  IF \E i \in 1..Len(ToASM(TargetScript(c))) :
       ToASM(TargetScript(c))[i] = OpToken(OP_RETURN)
  THEN HexToken(<<PIPE>>) ELSE OpToken(OP_RETURN)

\* the script _applySignature builds, line 536-537
NewScript(c, signedAsm) ==
  FromASM(ExistingAsm(c, signedAsm) \o <<Separator(c)>> \o signedAsm)

\* _applySignature(signedAsm, sig): this._sig is set first; without a target
\* output Script.fromASM throws on the text "undefined"
applySignature(c, signedAsm, newSig) ==
  LET c1 == [c EXCEPT !.sig = newSig] IN
  IF ~HasTarget(c1)
  THEN [ok |-> FALSE, error |-> "throw", ctx |-> c1, held |-> c.transaction,
        response |-> NoSig, sigmaScript |-> <<>>]
  ELSE [ok |-> TRUE, error |-> "",
        ctx |-> [c1 EXCEPT !.transaction = SignedTx(c1, NewScript(c1, signedAsm))],
        held |-> HeldAfterSign(c),
        response |-> newSig, sigmaScript |-> FromASM(signedAsm)]

\* the five fields of an instance as ASM tokens
SignedAsm(algorithm, address, signature, vin) ==
  <<HexToken(SIGMA_PREFIX), HexToken(algorithm), HexToken(address),
    HexToken(signature), HexToken(ToDecimal(vin))>>

\* a failure that drops the cached hashes
FailedDroppingHashes(c, error) ==
  [ok |-> FALSE, error |-> error,
   ctx |-> [c EXCEPT !.inputHash = <<>>, !.dataHash = <<>>],
   held |-> c.transaction, response |-> NoSig, sigmaScript |-> <<>>]

\* a throw: nothing of the context is assigned
Failed(c, error) ==
  [ok |-> FALSE, error |-> error, ctx |-> c, held |-> c.transaction,
   response |-> NoSig, sigmaScript |-> <<>>]

\* a _sign without the guard: a missing recovery identifier is taken as 0
signBSMUnguarded(c, core, address, recovery) ==
  LET rec == IF recovery = Undefined THEN 0 ELSE recovery IN
  applySignature(c,
    SignedAsm(AlgBSM, address, ToCompact(core, rec), ResolveVin(c)),
    [some |-> TRUE, algorithm |-> AlgBSM, address |-> address,
     signature |-> ToBase64(ToCompact(core, rec)),
     vin |-> ResolveVin(c), targetVout |-> c.targetVout])

\* _sign(signature, address, recovery)
signBSM(c, core, address, recovery) ==
  IF recovery = Undefined THEN Failed(c, "RecoveryMissing")
  ELSE applySignature(c,
         SignedAsm(AlgBSM, address, ToCompact(core, recovery), ResolveVin(c)),
         [some |-> TRUE, algorithm |-> AlgBSM, address |-> address,
          signature |-> ToBase64(ToCompact(core, recovery)),
          vin |-> ResolveVin(c), targetVout |-> c.targetVout])

\* _signBRC77(message, privateKey, verifier)
signBRC77(c, message, key, verifier) ==
  applySignature(c,
    SignedAsm(AlgBRC77, AddressOf(key), Brc77Sig(key, verifier, message), ResolveVin(c)),
    [some |-> TRUE, algorithm |-> AlgBRC77, address |-> AddressOf(key),
     signature |-> ToBase64(Brc77Sig(key, verifier, message)),
     vin |-> ResolveVin(c), targetVout |-> c.targetVout])

\* sign(privateKey, algorithm, verifier); verifier 0 when omitted
sign(c, key, algorithm, verifier) ==
  IF ~HashesSet(c) THEN Failed(c, "MissingState")
  ELSE IF algorithm = AlgBRC77 THEN signBRC77(c, getMessageHash(c), key, verifier)
  ELSE signBSM(c, EcdsaSig(key, getMessageHash(c)), AddressOf(key),
               RecoveryFactor(key, getMessageHash(c)))

(***************************************************************************)
(* The constructor and the setters, as functions of the fields.            *)
(***************************************************************************)
\* setHashes that computes the input hash once and keeps it afterwards
setHashesOnce(c) ==
  LET kept == IF c.inputHash = <<>> THEN getInputHash(c) ELSE c.inputHash IN
  IF HasTarget(c)
  THEN [c EXCEPT !.inputHash = kept, !.dataHash = getDataHash(c)]
  ELSE [c EXCEPT !.inputHash = kept]

\* setHashes: _inputHash is assigned before getDataHash throws for a missing
\* target output
setHashes(c) ==
  IF HasTarget(c)
  THEN [c EXCEPT !.inputHash = getInputHash(c), !.dataHash = getDataHash(c)]
  ELSE [c EXCEPT !.inputHash = getInputHash(c)]

\* a selection of the instance that keeps the cached hashes
setSigmaInstanceOnly(c, k) == [c EXCEPT !.sigmaInstance = k]

\* setSigmaInstance: the selection, then setHashes
setSigmaInstance(c, k) == setHashes([c EXCEPT !.sigmaInstance = k])

\* a constructor that leaves the hashes to a later setHashes
ConstructedWithoutHashes(tx, v, k, r) ==
  LET c0 == [transaction |-> tx, targetVout |-> v, sigmaInstance |-> k,
             refVin |-> r, inputHash |-> <<>>, dataHash |-> <<>>, sig |-> NoSig]
  IN [c0 EXCEPT !.sig = sig(c0)]

\* new Sigma(transaction, targetVout, sigmaInstance, refVin)
Constructed(tx, v, k, r) ==
  LET c0 == [transaction |-> tx, targetVout |-> v, sigmaInstance |-> k,
             refVin |-> r, inputHash |-> <<>>, dataHash |-> <<>>, sig |-> NoSig]
  IN setHashes([c0 EXCEPT !.sig = sig(c0)])

(***************************************************************************)
(* The transactions the model starts from.                                 *)
(***************************************************************************)
InA == [sourceTXID |-> <<8, 1, 0, 7>>, sourceOutputIndex |-> 0]
InB == [sourceTXID |-> <<8, 1, 0, 12>>, sourceOutputIndex |-> 16909060]
\* an input whose previous txid is not known yet
InP == [sourceTXID |-> <<>>, sourceOutputIndex |-> 0]
InputPool == {InA, InB, InP}
\* the inputs a caller inserts or substitutes
EditPool == {InB, InP}

Push1 == DataChunk(<<112, 49>>)
Push2 == DataChunk(<<112, 50>>)
\* OP_0 OP_RETURN pushdata1 pushdata2, the script of the tests
Plain == <<OpChunk(OP_0), OpChunk(OP_RETURN), Push1, Push2>>
\* a script with no OP_RETURN
NoReturn == <<OpChunk(OP_DUP), Push1>>
\* a marker with one field only: no instance
Truncated == Plain \o <<DataChunk(<<PIPE>>), DataChunk(SIGMA_PREFIX), DataChunk(AlgBSM)>>
\* a signature by key 1 over a digest that is not this transaction's
Placeholder == ToCompact(EcdsaSig(1, <<0>>), 0)
\* an instance as the first chunks of the script
MarkerFirst ==
  <<DataChunk(SIGMA_PREFIX), DataChunk(AlgBSM), DataChunk(AddressOf(1)),
    DataChunk(Placeholder), DataChunk(ToDecimal(0))>>
\* the test script with an instance whose signature is a placeholder
Unsigned == Plain \o <<DataChunk(<<PIPE>>)>> \o MarkerFirst
\* the same script as a parsed serialization gives it
Reparsed == FromBinary(ToBinary(Unsigned))

Out(script) == [satoshis |-> Len(script), lockingScript |-> script]

TxPool ==
  {[version |-> 1, inputs |-> <<>>, outputs |-> <<Out(Plain)>>, lockTime |-> 0],
   [version |-> 2, inputs |-> <<InA, InB>>, outputs |-> <<Out(NoReturn), Out(Plain)>>,
    lockTime |-> 5],
   [version |-> 1, inputs |-> <<InA>>, outputs |-> <<Out(Unsigned)>>, lockTime |-> 0],
   [version |-> 1, inputs |-> <<InP>>, outputs |-> <<Out(Truncated)>>, lockTime |-> 0],
   [version |-> 1, inputs |-> <<InA>>, outputs |-> <<Out(MarkerFirst)>>, lockTime |-> 0],
   [version |-> 1, inputs |-> <<InA>>, outputs |-> <<Out(Reparsed)>>, lockTime |-> 0]}

\* arguments the callers of the model pass
VoutArgs == 0..1
InstanceArgs == 0..1
RefVinArgs == -1..1
\* sign(key, algorithm, verifier)
SignArgs ==
  {<<1, AlgBSM, 0>>, <<2, AlgBRC77, 0>>}
RecipientArgs == {Undefined, 3}

(***************************************************************************)
(* State: the fields of one Sigma object, the remoteSign call it may have  *)
(* in flight, and what the properties need to remember of the past.        *)
(***************************************************************************)
VARIABLES
  transaction,    \* _transaction
  targetVout,     \* _targetVout
  sigmaInstance,  \* _sigmaInstance
  refVin,         \* _refVin
  inputHash,      \* _inputHash
  dataHash,       \* _dataHash
  cachedSig,      \* _sig
  pending,        \* the request of a suspended remoteSign, if any
  sent,           \* the fetch call the last step made, if any
  held,           \* the transaction object the context held before the last sign
  before,         \* the fields as they were when the last sign was called
  returned,       \* what the last successful sign returned, and the digest it signed
  last,           \* the last operation and how it ended
  slot,           \* signs in a row on this context, and the count after the first
  replay,         \* what happened to the reference input since the last sign
  tampered,       \* the field of the selected instance changed since the last sign
  signs,          \* successful signs so far
  setups,         \* constructor and setter calls so far
  edits           \* changes made by the caller so far

ctxVars == <<transaction, targetVout, sigmaInstance, refVin, inputHash, dataHash, cachedSig>>
vars == <<transaction, targetVout, sigmaInstance, refVin, inputHash, dataHash, cachedSig,
          pending, sent, held, before, returned, last, slot, replay, tampered, signs,
          setups, edits>>

\* the object's fields as a record
Self ==
  [transaction |-> transaction, targetVout |-> targetVout,
   sigmaInstance |-> sigmaInstance, refVin |-> refVin, inputHash |-> inputHash,
   dataHash |-> dataHash, sig |-> cachedSig]

\* the fields become those of c
Becomes(c) ==
  /\ transaction' = c.transaction
  /\ targetVout' = c.targetVout
  /\ sigmaInstance' = c.sigmaInstance
  /\ refVin' = c.refVin
  /\ inputHash' = c.inputHash
  /\ dataHash' = c.dataHash
  /\ cachedSig' = c.sig

\* the auth-token descriptors remoteSign is called with; NoToken when omitted
NoToken == [some |-> FALSE, type |-> "none", key |-> "", value |-> ""]
AuthTokens ==
  {NoToken,
   [some |-> TRUE, type |-> "header", key |-> "x-auth", value |-> "secret"],
   [some |-> TRUE, type |-> "query", key |-> "token", value |-> "secret"]}

\* the headers remoteSign adds to every request
JsonHeaders == {<<"Content-Type", "application/json">>, <<"Accept", "application/json">>}

\* the fetch call of remoteSign: the url as its path and query, the headers as
\* name-value pairs, and the JSON body
remoteSignRequest(c, authToken) ==
  [method |-> "POST",
   path |-> "/sign",
   query |-> IF authToken.some /\ authToken.type = "query"
             THEN <<authToken.key, authToken.value>> ELSE <<>>,
   headers |-> (IF authToken.some THEN {<<authToken.key, authToken.value>>} ELSE {})
               \cup JsonHeaders,
   body |-> [message |-> ToHex(getMessageHash(c)), encoding |-> "hex"]]

NoRequest ==
  [method |-> "", path |-> "", query |-> <<>>, headers |-> {},
   body |-> [message |-> <<>>, encoding |-> ""]]

\* no request was sent by the last step
NoSent == [token |-> NoToken, request |-> NoRequest]

NoPending == [active |-> FALSE, message |-> <<>>]
\* the outcomes of the POST to the key host: the transport fails, the status is
\* not ok, or a JSON body with or without its recovery field
RemoteOutcomes == {"network", "http", "norecovery", "ok"}
\* the keys a key host signs with
RemoteKeys == {1}
\* the changes a caller makes to one field of a stored instance
TamperKinds == {"address", "header", "forged"}
\* keys that sign nothing in the model
OtherKeys == {9}
NoResponse == [sig |-> NoSig, signedTx |-> [version |-> 0, inputs |-> <<>>,
               outputs |-> <<>>, lockTime |-> 0], sigmaScript |-> <<>>, message |-> <<>>]
NoSlot == [signs |-> 0, count |-> 0]
Did(op, result) == [op |-> op, result |-> result]

Init ==
  /\ \E tx \in TxPool, v \in VoutArgs, r \in RefVinArgs :
       LET k == 0 IN   \* the default sigmaInstance; Construct and the setter pick others
       /\ v < Len(tx.outputs)
       /\ transaction = Constructed(tx, v, k, r).transaction
       /\ targetVout = v
       /\ sigmaInstance = k
       /\ refVin = r
       /\ inputHash = Constructed(tx, v, k, r).inputHash
       /\ dataHash = Constructed(tx, v, k, r).dataHash
       /\ cachedSig = Constructed(tx, v, k, r).sig
       /\ held = tx
       /\ before = Constructed(tx, v, k, r)
  /\ returned = NoResponse
  /\ pending = NoPending
  /\ sent = NoSent
  /\ last = Did("construct", "ok")
  /\ slot = NoSlot
  /\ replay = "none"
  /\ tampered = "none"
  /\ signs = 0
  /\ setups = 0
  /\ edits = 0

\* new Sigma(this.transaction, v, k, r): a fresh context over the transaction
\* this one holds; the constructor throws without the target output
Construct(v, k, r) ==
  /\ setups < MaxSetups
  /\ setups' = setups + 1
  /\ v < Len(transaction.outputs)
  /\ Becomes(Constructed(transaction, v, k, r))
  /\ pending' = NoPending
  /\ last' = Did("construct", "ok")
  /\ sent' = NoSent
  /\ slot' = NoSlot
  /\ replay' = IF replay \in {"changed", "rederived"} /\ v = targetVout
                   /\ k = sigmaInstance /\ r = refVin
                THEN "rederived" ELSE "none"
  /\ tampered' = IF v = targetVout /\ k = sigmaInstance /\ r = refVin
                  THEN tampered ELSE "none"
  /\ UNCHANGED <<held, before, returned, signs, edits>>

SetTargetVout(v) ==
  /\ setups < MaxSetups
  /\ setups' = setups + 1
  /\ targetVout' = v
  /\ last' = Did("setTargetVout", "ok")
  /\ sent' = NoSent
  /\ slot' = NoSlot
  /\ replay' = "none"
  /\ tampered' = "none"
  /\ UNCHANGED <<transaction, sigmaInstance, refVin, inputHash, dataHash, cachedSig,
                 pending, held, before, returned, signs, edits>>

SetSigmaInstance(k) ==
  /\ setups < MaxSetups
  /\ setups' = setups + 1
  /\ Becomes(setSigmaInstance(Self, k))
  /\ last' = Did("setSigmaInstance", IF HasTarget(Self) THEN "ok" ELSE "throw")
  /\ sent' = NoSent
  /\ slot' = NoSlot
  /\ replay' = "none"
  /\ tampered' = "none"
  /\ UNCHANGED <<pending, held, before, returned, signs, edits>>

SetHashes ==
  /\ setups < MaxSetups
  /\ setups' = setups + 1
  /\ Becomes(setHashes(Self))
  /\ last' = Did("setHashes", IF HasTarget(Self) THEN "ok" ELSE "throw")
  /\ sent' = NoSent
  /\ replay' = IF replay \in {"changed", "rederived"} /\ HasTarget(Self)
                THEN "rederived" ELSE "none"
  /\ UNCHANGED <<pending, held, before, returned, slot, tampered, signs, edits>>

\* what a sign or remoteSign of the digest message that ended as res leaves
\* behind
Signed(op, res, message) ==
  /\ Becomes(res.ctx)
  /\ held' = IF res.ok THEN res.held ELSE held
  /\ before' = IF res.ok THEN Self ELSE before
  /\ returned' = IF res.ok
                  THEN [sig |-> res.response, signedTx |-> res.ctx.transaction,
                        sigmaScript |-> res.sigmaScript, message |-> message]
                  ELSE returned
  /\ last' = Did(op, IF res.ok THEN "ok" ELSE res.error)
  /\ sent' = NoSent
  /\ slot' = IF ~res.ok THEN slot
              ELSE IF slot.signs = 0
                   THEN [signs |-> 1, count |-> getSigInstanceCount(res.ctx)]
                   ELSE [slot EXCEPT !.signs = 2]
  /\ replay' = IF res.ok THEN "signed" ELSE "none"
  /\ tampered' = "none"
  /\ signs' = IF res.ok THEN signs + 1 ELSE signs
  /\ UNCHANGED <<edits, setups>>

Sign(key, algorithm, verifier) ==
  /\ signs < MaxSigns
  /\ Signed("sign", sign(Self, key, algorithm, verifier), getMessageHash(Self))
  /\ UNCHANGED pending

Verify(recipient) ==
  /\ last' = Did("verify", verify(Self, recipient))
  /\ sent' = NoSent
  /\ UNCHANGED <<transaction, targetVout, sigmaInstance, refVin, inputHash, dataHash,
                 cachedSig, pending, held, before, returned, slot, replay, tampered,
                 signs, setups, edits>>

\* remoteSign up to its await: the request body holds the digest as hex
RemoteSignRequest(authToken) ==
  /\ ~pending.active
  /\ signs < MaxSigns
  /\ IF HashesSet(Self)
     THEN /\ pending' = [active |-> TRUE,
                         message |-> remoteSignRequest(Self, authToken).body.message]
          /\ sent' = [token |-> authToken,
                      request |-> remoteSignRequest(Self, authToken)]
          /\ last' = Did("remoteSign", "pending")
     ELSE /\ pending' = pending
          /\ sent' = NoSent
          /\ last' = Did("remoteSign", "MissingState")
  /\ UNCHANGED <<transaction, targetVout, sigmaInstance, refVin, inputHash, dataHash,
                 cachedSig, held, before, returned, slot, replay, tampered, signs, setups, edits>>

\* the body the key host answers with: a compact signature, base64
RemoteSig(key, message) ==
  ToBase64(ToCompact(EcdsaSig(key, message), RecoveryFactor(key, message)))

\* remoteSign from its await on
RemoteSignResponse(outcome) ==
  /\ pending.active
  /\ pending' = NoPending
  /\ \E key \in RemoteKeys :
       LET message == FromHex(pending.message) IN
       IF outcome = "network"
       THEN Signed("remoteSign", Failed(Self, "FetchError"), message)
       ELSE IF outcome = "http"
       THEN Signed("remoteSign", Failed(Self, "HTTPError"), message)
       ELSE Signed("remoteSign",
                   signBSM(Self, FromCompact(FromBase64(RemoteSig(key, message))),
                           AddressOf(key),
                           IF outcome = "norecovery" THEN Undefined
                           ELSE RecoveryFactor(key, message)),
                   message)

\* what the caller's change does to the tracking of the reference input
AfterEdit(touchesRef) ==
  IF replay = "signed" THEN (IF touchesRef THEN "changed" ELSE "signed") ELSE "none"

\* the caller inserts an input at position p of the transaction the context holds
InsertInput(p, inp) ==
  /\ edits < MaxEdits
  /\ Len(transaction.inputs) < MaxInputs
  /\ p <= Len(transaction.inputs)
  /\ transaction' = [transaction EXCEPT !.inputs =
                       SubSeq(@, 1, p) \o <<inp>> \o SubSeq(@, p + 1, Len(@))]
  /\ replay' = AfterEdit(p <= ResolveVin(before))
  /\ edits' = edits + 1
  /\ last' = Did("insertInput", "ok")
  /\ sent' = NoSent
  /\ UNCHANGED <<targetVout, sigmaInstance, refVin, inputHash, dataHash, cachedSig,
                 pending, held, before, returned, slot, tampered, signs, setups>>

\* the caller gives input i another outpoint
ChangeOutpoint(i, inp) ==
  /\ edits < MaxEdits
  /\ i < Len(transaction.inputs)
  /\ transaction.inputs[i + 1] # inp
  /\ transaction' = [transaction EXCEPT !.inputs[i + 1] = inp]
  /\ replay' = AfterEdit(i = ResolveVin(before))
  /\ edits' = edits + 1
  /\ last' = Did("changeOutpoint", "ok")
  /\ sent' = NoSent
  /\ UNCHANGED <<targetVout, sigmaInstance, refVin, inputHash, dataHash, cachedSig,
                 pending, held, before, returned, slot, tampered, signs, setups>>

\* the stored signature of record s with one thing changed
TamperedSignature(s, kind, key) ==
  LET raw == FromBase64(s.signature) IN
  IF s.algorithm = AlgBRC77
       THEN IF IsBrc77(raw)
            THEN Brc77Sig(key, Brc77Verifier(raw), Brc77Msg(raw))
            ELSE raw \o <<0>>
       ELSE IF ~IsCompact(raw) THEN raw \o <<0>>
       ELSE IF kind = "header"
            THEN <<27 + ((raw[1] - 27 + 1) % 8)>> \o Tail(raw)
            ELSE ToCompact(EcdsaSig(key, EcdsaMsg(FromCompact(raw))),
                           RecoveryFactor(key, EcdsaMsg(FromCompact(raw))))

\* the caller changes one field of the instance the context selects, in the
\* script of the transaction the context holds, right after a sign
Tamper(kind, key) ==
  /\ edits < MaxEdits
  /\ last.op \in {"sign", "remoteSign"} /\ last.result = "ok"
  /\ HasTarget(Self)
  /\ sig(Self).some
  /\ getSigInstancePosition(Self) # -1
  /\ LET pos == getSigInstancePosition(Self) + 1
         script == TargetScript(Self)
     IN /\ IsMarker(script[pos]) /\ HasFields(script, pos)
        /\ transaction' =
             [transaction EXCEPT !.outputs[targetVout + 1].lockingScript =
                IF kind = "address"
                THEN [script EXCEPT ![pos + 2] = DataChunk(AddressOf(key))]
                ELSE [script EXCEPT ![pos + 3] =
                        DataChunk(TamperedSignature(sig(Self), kind, key))]]
  /\ tampered' = kind
  /\ replay' = "none"
  /\ edits' = edits + 1
  /\ last' = Did("tamper", verify(Self, Undefined))
  /\ sent' = NoSent
  /\ UNCHANGED <<targetVout, sigmaInstance, refVin, inputHash, dataHash, cachedSig,
                 pending, held, before, returned, slot, signs, setups>>

Next ==
  \/ \E k \in InstanceArgs : Construct(targetVout, k, refVin)
  \/ \E v \in VoutArgs : SetTargetVout(v)
  \/ \E k \in InstanceArgs : SetSigmaInstance(k)
  \/ SetHashes
  \/ \E a \in SignArgs : Sign(a[1], a[2], a[3])
  \/ \E authToken \in AuthTokens : RemoteSignRequest(authToken)
  \/ \E outcome \in RemoteOutcomes : RemoteSignResponse(outcome)
  \/ \E recipient \in RecipientArgs : Verify(recipient)
  \/ \E p \in 0..MaxInputs, inp \in EditPool : InsertInput(p, inp)
  \/ \E i \in 0..MaxInputs, inp \in EditPool : ChangeOutpoint(i, inp)
  \/ \E kind \in TamperKinds, key \in OtherKeys : Tamper(kind, key)

Spec == Init /\ [][Next]_vars

(***************************************************************************)
(* Properties.                                                             *)
(***************************************************************************)
\* the last step was a sign that returned
JustSigned == last = Did("sign", "ok")
\* the last step was a sign or a remoteSign that returned
JustSignedAny == last.op \in {"sign", "remoteSign"} /\ last.result = "ok"

\* a fresh context over the transaction the last sign returned, with the
\* signing context's targetVout, sigmaInstance and refVin
FreshOverReturned == Constructed(returned.signedTx, targetVout, sigmaInstance, refVin)

IsPrefix(a, b) == Len(a) <= Len(b) /\ SubSeq(b, 1, Len(a)) = a

\* C1: for every context on which sign(privateKey, algorithm) returns (BSM, or
\* BRC77 with no verifier restriction), verify() called next on the same
\* context returns true.
C1_VerifyAfterSign ==
  JustSigned => verify(Self, Undefined) = "true"

\* C2: after a successful sign, when only the signature field or only the
\* address field of the selected instance is changed to a different value,
\* verify() on a context selecting that instance returns false, for BSM and
\* for BRC77.  (The change is made to an instance that verified before it.)
C2_TamperDetected ==
  last = Did("tamper", "true") =>
    /\ verify(Self, Undefined) = "false"
    /\ verify(Constructed(transaction, targetVout, sigmaInstance, refVin), Undefined)
         = "false"

\* C3: after a successful sign, a fresh context over the returned transaction
\* with the same targetVout, sigmaInstance and refVin reports the same
\* getInputHash(), getDataHash(), getMessageHash() and getSigInstanceCount()
\* as the signing context does right after the sign, and verify() on the
\* fresh context returns true.
C3_RoundTrip ==
  JustSigned =>
    /\ getInputHash(FreshOverReturned) = getInputHash(Self)
    /\ getDataHash(FreshOverReturned) = getDataHash(Self)
    /\ getMessageHash(FreshOverReturned) = getMessageHash(Self)
    /\ getSigInstanceCount(FreshOverReturned) = getSigInstanceCount(Self)
    /\ verify(FreshOverReturned, Undefined) = "true"

\* C4: when sign is called a second time on the same context with an
\* unchanged sigmaInstance, getSigInstanceCount() after the second sign
\* equals its value after the first, and the record at sigmaInstance is the
\* one the second sign produced.
C4_ResignReplaces ==
  JustSigned /\ slot.signs = 2 =>
    /\ getSigInstanceCount(Self) = slot.count
    /\ sig(Self) = returned.sig

\* C5: every successful sign or remoteSign leaves the instances already in
\* the target output's script unchanged in content and index (the list parsed
\* before the call is a prefix of the list parsed after it) and leaves every
\* other output unchanged.
C5_OthersUndisturbed ==
  JustSignedAny =>
    /\ IsPrefix(parseSigmaInstances(TargetScript(before), before.targetVout),
                parseSigmaInstances(TargetScript(Self), targetVout))
    /\ Len(transaction.outputs) = Len(before.transaction.outputs)
    /\ \A i \in 1..Len(transaction.outputs) :
         i # targetVout + 1 => transaction.outputs[i] = before.transaction.outputs[i]

\* the script holds the OP_RETURN opcode
ContainsOpReturn(script) == \E i \in 1..Len(script) : script[i].op = OP_RETURN

\* the five fields of the record rec, as pushes
InstanceFields(rec) ==
  <<DataChunk(SIGMA_PREFIX), DataChunk(rec.algorithm), DataChunk(rec.address),
    DataChunk(FromBase64(rec.signature)), DataChunk(ToDecimal(rec.vin))>>

\* C6: the locking script after a sign is exactly the old script, then one
\* separator, then the five instance fields marker, algorithm, address,
\* signature, vin; the separator is OP_RETURN when the old script holds no
\* OP_RETURN opcode and the one-byte push 0x7c when it does.
C6_AppendLayout ==
  JustSigned =>
    TargetScript(Self) =
      TargetScript(before)
      \o <<IF ContainsOpReturn(TargetScript(before))
           THEN DataChunk(<<PIPE>>) ELSE OpChunk(OP_RETURN)>>
      \o InstanceFields(returned.sig)

\* C7: sign leaves the transaction object the context held untouched, and
\* the returned transaction, which is the context's new one, equals the old
\* one in version, lock time, every input, every output other than
\* targetVout and the satoshis of the target output.
C7_SignFrame ==
  JustSigned =>
    /\ held = before.transaction
    /\ transaction = returned.signedTx
    /\ transaction.version = before.transaction.version
    /\ transaction.lockTime = before.transaction.lockTime
    /\ transaction.inputs = before.transaction.inputs
    /\ Len(transaction.outputs) = Len(before.transaction.outputs)
    /\ \A i \in 1..Len(transaction.outputs) :
         IF i = targetVout + 1
         THEN transaction.outputs[i].satoshis = before.transaction.outputs[i].satoshis
         ELSE transaction.outputs[i] = before.transaction.outputs[i]

\* the bytes of a txid given as hex digits, and a 4-byte little-endian index
TxidBytes(hex) == [i \in 1..(Len(hex) \div 2) |-> 16 * hex[2 * i - 1] + hex[2 * i]]
LittleEndian4(n) == [i \in 1..4 |-> (n \div (256 ^ (i - 1))) % 256]
ZeroBytes32 == [i \in 1..32 |-> 0]

\* the outpoint bytes of inputs[vin] of tx, or the 32 zero bytes when the
\* input is absent or its txid is not known
OutpointOrZero(tx, vin) ==
  IF vin >= 0 /\ vin < Len(tx.inputs) /\ tx.inputs[vin + 1].sourceTXID # <<>>
  THEN TxidBytes(tx.inputs[vin + 1].sourceTXID)
       \o LittleEndian4(tx.inputs[vin + 1].sourceOutputIndex)
  ELSE ZeroBytes32

\* C8: getInputHash() is SHA-256 of the outpoint (previous txid, then the
\* 4-byte little-endian previous output index) of inputs[vin], vin being
\* targetVout when refVin is -1 and refVin otherwise, when that input exists
\* and has a known txid; otherwise it is SHA-256 of 32 zero bytes.
C8_InputHash ==
  getInputHash(Self) =
    Sha256(OutpointOrZero(transaction, IF refVin = -1 THEN targetVout ELSE refVin))

\* C8 is met with an input whose index has four different bytes
C8_Witness ==
  /\ refVin = 1
  /\ Len(transaction.inputs) = 2
  /\ transaction.inputs[2] = InB
  /\ getInputHash(Self) = Sha256(<<129, 12, 4, 3, 2, 1>>)

\* the positions at which the instances of a script start, for a script
\* whose OP_RETURN carries no payload of its own
RECURSIVE InstanceStarts(_, _)
InstanceStarts(script, i) ==
  IF i > Len(script) THEN <<>>
  ELSE IF IsMarker(script[i]) /\ HasFields(script, i)
       THEN <<i>> \o InstanceStarts(script, i + 5)
       ELSE InstanceStarts(script, i + 1)

NoPayload(script) == \A i \in 1..Len(script) : ~IsNested(script[i])

\* the chunks strictly before the separator of the instance that starts at
\* position start
BeforeSeparator(script, start) ==
  SubSeq(script, 1, IF start >= 2 THEN start - 2 ELSE 0)

\* C9: for every instance index k the script holds, getDataHash() with
\* sigmaInstance = k hashes exactly the chunks strictly before that instance's
\* separator, wherever the marker sits; with no instance at index k it hashes
\* the entire current script.  (Stated for scripts whose instances are chunks
\* of the script itself.)
C9_DataHashPrefix ==
  HasTarget(Self) /\ NoPayload(TargetScript(Self)) =>
    \A k \in InstanceArgs :
      LET starts == InstanceStarts(TargetScript(Self), 1) IN
      getDataHash([Self EXCEPT !.sigmaInstance = k]) =
        IF k < Len(starts)
        THEN Sha256(ToBinary(BeforeSeparator(TargetScript(Self), starts[k + 1])))
        ELSE Sha256(ToBinary(TargetScript(Self)))

\* the signature the last sign returned is the one the context selects
ReturnedIsSelected == sig(Self) = returned.sig

\* the last sign signed the digest of the transaction as it then was
SignedCurrentInput ==
  /\ returned.message = getMessageHash(before)
  /\ before.inputHash = getInputHash(before)

RECURSIVE Flatten(_)
Flatten(script) ==
  IF script = <<>> THEN <<>>
  ELSE IF IsNested(Head(script))
       THEN <<OpChunk(OP_RETURN)>> \o FromBinary(Head(script).data) \o Flatten(Tail(script))
       ELSE <<Head(script)>> \o Flatten(Tail(script))

\* the form a script takes when it is parsed again from its serialization
Reparse(script) == FromBinary(ToBinary(script))

\* the content in the form (inline or nested) of script
SameForm(script, content) == IF NoPayload(script) THEN content ELSE Reparse(content)

\* the content with the data of chunk j changed
Alter(content, j) == [content EXCEPT ![j] = DataChunk(<<0>> \o content[j].data)]

\* scripts a and b, of the form of script, treat instance k as C11 says: the
\* same data hash exactly when they agree before the separator of instance k
SamePrefixSameHash(script, a, b, k) ==
  LET sa == InstanceStarts(a, 1)
      sb == InstanceStarts(b, 1)
  IN k < Len(sa) /\ k < Len(sb) =>
       ((BeforeSeparator(a, sa[k + 1]) = BeforeSeparator(b, sb[k + 1]))
        <=> (DataHashOf(SameForm(script, a), k) = DataHashOf(SameForm(script, b), k)))

\* C11: getDataHash for instance k depends on exactly the script content
\* before that instance's separator: scripts that agree there give the same
\* value whatever follows, and scripts that differ there give different
\* values.  The target script is compared with itself followed by one more
\* chunk, and with itself changed in any one data chunk.
C11_DataHashDependsOnPrefix ==
  HasTarget(Self) =>
    LET a == Flatten(TargetScript(Self)) IN
    \A k \in InstanceArgs :
      /\ SamePrefixSameHash(TargetScript(Self), a, a \o <<Push1>>, k)
      /\ \A j \in 1..Len(a) :
           a[j].hasData => SamePrefixSameHash(TargetScript(Self), a, Alter(a, j), k)

\* the context over the same transaction with the target script parsed again
\* from its serialization
OverReparsed(c) ==
  [c EXCEPT !.transaction.outputs[c.targetVout + 1].lockingScript =
              Reparse(TargetScript(c))]

\* C12: the nested encoding of a script (the form it has when parsed again
\* from its bytes) gives the same instance list, the same count and the same
\* getDataHash for every instance index as the inline encoding, so that a
\* signature that verifies on the signed transaction verifies on its
\* re-parsed serialization.
C12_InlineNestedAgree ==
  HasTarget(Self) /\ NoPayload(TargetScript(Self)) =>
    LET nested == Reparse(TargetScript(Self)) IN
    /\ parseSigmaInstances(nested, targetVout)
         = parseSigmaInstances(TargetScript(Self), targetVout)
    /\ countSigmaInstances(nested) = countSigmaInstances(TargetScript(Self))
    /\ \A k \in InstanceArgs :
         DataHashOf(nested, k) = DataHashOf(TargetScript(Self), k)
    /\ verify(setHashes(Self), Undefined) = "true"
         => verify(setHashes(OverReparsed(Self)), Undefined) = "true"

\* the position of the last marker chunk of a script, 0 when it has none
LastMarker(script) ==
  LET at == {j \in 1..Len(script) : IsMarker(script[j])} IN
  IF at = {} THEN 0 ELSE CHOOSE j \in at : \A h \in at : h <= j

\* the marker at i is not one of the four fields of an earlier marker
OwnMarker(script, i) == \A d \in 1..4 : i - d >= 1 => ~IsMarker(script[i - d])

\* the two forms a script content is parsed in
Forms == {"inline", "nested"}
InForm(form, content) == IF form = "inline" THEN content ELSE Reparse(content)

\* the record the five chunks from the marker at i spell
RecordAt(script, i, v) ==
  [some |-> TRUE,
   algorithm |-> script[i + 1].data,
   address |-> script[i + 2].data,
   signature |-> ToBase64(script[i + 3].data),
   vin |-> ParseInt10(script[i + 4].data),
   targetVout |-> v]

\* what the last marker of a content adds to the parse of the chunks before
\* it, when the content is cut after m chunks: nothing when fewer than four
\* chunks follow the marker, its record when exactly four chunks with data
\* follow it
LastMarkerParsed(content, v) ==
  LET i == LastMarker(content) IN
  i > 0 /\ OwnMarker(content, i) =>
    \A form \in Forms :
      LET rest == parseSigmaInstances(InForm(form, SubSeq(content, 1, i - 1)), v) IN
      \A m \in i..Min(i + 4, Len(content)) :
        LET whole == InForm(form, SubSeq(content, 1, m)) IN
        IF m - i < 4
        THEN /\ parseSigmaInstances(whole, v) = rest
             /\ countSigmaInstances(whole) = Len(rest)
        ELSE (\A d \in 1..4 : content[i + d].hasData) =>
             /\ parseSigmaInstances(whole, v) = rest \o <<RecordAt(content, i, v)>>
             /\ countSigmaInstances(whole) = Len(rest) + 1

\* the steps that write a locking script; every other step leaves the scripts
\* of the transaction as they are
ScriptWriters == {"construct", "sign", "remoteSign", "tamper"}

C14_SigIsParsedRecord ==
  HasTarget(Self) =>
    LET instances == parseSigmaInstances(TargetScript(Self), targetVout) IN
    IF sigmaInstance < Len(instances)
    THEN sig(Self) = instances[sigmaInstance + 1]
    ELSE sig(Self) = NoSig /\ verify(Self, Undefined) = "NoSignature"

\* C15: after setTargetVout(v) the cached hashes are those of the new target:
\* getMessageHash() is SHA-256 of getInputHash() followed by getDataHash() as
\* evaluated for output v.
C15_TargetChangeRefreshes ==
  last = Did("setTargetVout", "ok") /\ HasTarget(Self) =>
    /\ HashesSet(Self)
    /\ getMessageHash(Self) = Sha256(getInputHash(Self) \o getDataHash(Self))

\* C17: in every state reachable through the constructor, setTargetVout,
\* setSigmaInstance, sign and remoteSign, targetVout is the index of an output
\* of the context's transaction.
C17_TargetInRange ==
  0 <= targetVout /\ targetVout < Len(transaction.outputs)

\* the context with its hashes computed now from its transaction
WithFreshHashes(c) ==
  [c EXCEPT !.inputHash = getInputHash(c), !.dataHash = getDataHash(c)]

\* the selected instance is validly signed: its signature verifies against the
\* digest of the context's current transaction
ValidlySigned(c) == verify(WithFreshHashes(c), Undefined) = "true"

\* C16: after setSigmaInstance(k) the cached hashes are those of instance k of
\* the context's current transaction: getMessageHash() is SHA-256 of
\* getInputHash() followed by getDataHash() evaluated for instance k, so
\* verify() returns true for every validly signed instance selected this way.
C16_InstanceChangeRefreshes ==
  /\ last = Did("setSigmaInstance", "ok") =>
       getMessageHash(Self) = Sha256(getInputHash(Self) \o getDataHash(Self))
  /\ HasTarget(Self) =>
       \A k \in InstanceArgs :
         LET c == setSigmaInstance(Self, k) IN
         /\ c.sigmaInstance = k
         /\ getMessageHash(c) = Sha256(getInputHash(c) \o getDataHash(c))
         /\ ValidlySigned(c) => verify(c, Undefined) = "true"

\* a second sign has left two instances on the target output, and instance 0
\* and instance 1 each verify after being selected
C16_Witness ==
  /\ JustSigned
  /\ getSigInstanceCount(Self) = 2
  /\ \A k \in InstanceArgs :
       /\ sig(setSigmaInstance(Self, k)) = parseSigmaInstances(TargetScript(Self), targetVout)[k + 1]
       /\ verify(setSigmaInstance(Self, k), Undefined) = "true"

\* the errors remoteSign re-raises for a failed transport and for a non-2xx
\* status
RemoteSignerErrors == {"FetchError", "HTTPError"}

\* C18: a remoteSign call whose request fails in transport or is answered with
\* a non-2xx status has sent one request and sends no other, rejects to its
\* caller with the error, and leaves the context's transaction, sig and cached
\* hashes as they were: neither the step that sends the request nor the step
\* that receives the failure changes them.
C18_RemoteFailureKeepsContext ==
  [][/\ (last'.op = "remoteSign" /\ last'.result = "pending") =>
          (~pending.active /\ pending'.active /\ UNCHANGED ctxVars)
     /\ (last'.op = "remoteSign" /\ last'.result \in RemoteSignerErrors) =>
          /\ pending.active
          /\ ~pending'.active
          /\ UNCHANGED ctxVars
          /\ UNCHANGED <<held, returned>>]_vars

\* a remoteSign on a context that shows a signature has just been rejected
\* with the error of a non-2xx answer
C18_Witness ==
  /\ last = Did("remoteSign", "HTTPError")
  /\ ~pending.active
  /\ HashesSet(Self)
  /\ sig(Self) # NoSig

\* the last step was a remoteSign that received a 2xx answer with a body
RemoteAnswered ==
  /\ last.op = "remoteSign"
  /\ last.result \notin {"pending", "MissingState"} \cup RemoteSignerErrors

\* C19: when the remote signer answers 2xx with a body carrying address, sig,
\* message and ts, sig being a valid signature by that address over the
\* requested message, remoteSign resolves with a record whose address and
\* signature are the response's address and sig, the context's sig afterwards
\* shows that same address and signature, and verify() returns true.
C19_RemoteSignResolves ==
  RemoteAnswered =>
    /\ last.result = "ok"
    /\ \E key \in RemoteKeys :
         /\ returned.sig.address = AddressOf(key)
         /\ returned.sig.signature = RemoteSig(key, returned.message)
    /\ sig(Self).address = returned.sig.address
    /\ sig(Self).signature = returned.sig.signature
    /\ verify(Self, Undefined) = "true"

C21_RemoteRequestShape ==
  last = Did("remoteSign", "pending") =>
    LET req == sent.request
        token == sent.token
        pair == <<token.key, token.value>>
    IN /\ pending.active
       /\ req.method = "POST"
       /\ req.path = "/sign"
       /\ req.body = [message |-> ToHex(getMessageHash(Self)), encoding |-> "hex"]
       /\ ~token.some => req.query = <<>> /\ req.headers = JsonHeaders
       /\ (token.some /\ token.type = "header") =>
            req.query = <<>> /\ req.headers = JsonHeaders \cup {pair}
       /\ (token.some /\ token.type = "query") =>
            req.query = pair /\ req.headers = JsonHeaders

\* the records a transaction's output v holds, as a set
RecordsOf(tx, v) ==
  LET instances == parseSigmaInstances(tx.outputs[v + 1].lockingScript, v) IN
  {instances[i] : i \in 1..Len(instances)}

\* two contexts over the transaction object tx: the first signs with a, then
\* the second, constructed over the same object with instance index k, signs
\* with b
TwoContexts(tx, v, r, k1, k, a, b) ==
  LET first == sign(Constructed(tx, v, k1, r), a[1], a[2], a[3])
      second == sign(Constructed(first.held, v, k, r), b[1], b[2], b[3])
      chained == sign(Constructed(first.ctx.transaction, v, k, r), b[1], b[2], b[3])
  IN (first.ok /\ second.ok /\ chained.ok) =>
       /\ first.held = tx
       /\ second.held = tx
       /\ first.response \in RecordsOf(first.ctx.transaction, v)
       /\ second.response \in RecordsOf(second.ctx.transaction, v)
       /\ RecordsOf(first.ctx.transaction, v) \subseteq RecordsOf(tx, v) \cup {first.response}
       /\ RecordsOf(second.ctx.transaction, v) \subseteq RecordsOf(tx, v) \cup {second.response}
       /\ first.response \notin RecordsOf(tx, v)
            => first.response \notin RecordsOf(second.ctx.transaction, v)
       /\ second.response \notin RecordsOf(tx, v)
            => second.response \notin RecordsOf(first.ctx.transaction, v)
       /\ {first.response, chained.response} \subseteq RecordsOf(chained.ctx.transaction, v)

\* C22: when two contexts wrap the same transaction T and each signs, in
\* either order, T itself is left unchanged, each context's resulting
\* transaction holds only the instance it added itself, and no context's
\* transaction contains both signatures; both end up in one transaction when
\* the second context is constructed over the transaction the first sign
\* returned.
C22_SharedTransaction ==
  HasTarget(Self) =>
    \A k \in InstanceArgs : \A a \in SignArgs, b \in SignArgs :
      a # b => TwoContexts(transaction, targetVout, refVin, sigmaInstance, k, a, b)

\* C23: in every state reachable after a successful construction, through
\* any sequence of setTargetVout, setSigmaInstance, setHashes, sign,
\* remoteSign and verify, both cached hashes are set, so that getMessageHash,
\* sign, remoteSign and verify never fail with MissingState; a further
\* setTargetVout (to an existing or to a missing output) followed by
\* setSigmaInstance or setHashes keeps them set.
C23_HashesAlwaysSet ==
  /\ HashesSet(Self)
  /\ last.result # "MissingState"
  /\ verify(Self, Undefined) # "MissingState"
  /\ \A v \in VoutArgs \cup {Len(transaction.outputs)} :
       /\ HashesSet(setHashes([Self EXCEPT !.targetVout = v]))
       /\ \A k \in InstanceArgs :
            HashesSet(setSigmaInstance([Self EXCEPT !.targetVout = v], k))

\* a context that went through a setter and a sign has just verified
C23_Witness ==
  /\ last.op = "verify"
  /\ last.result \in {"true", "false"}
  /\ setups >= 1
  /\ signs >= 1
  /\ HashesSet(Self)

\* C24: the three scans agree on every script: for every index k,
\* getSigInstancePosition() with sigmaInstance = k is not -1 exactly when
\* k < getSigInstanceCount(); on a script whose instances are its own chunks
\* the position is the chunk offset of the marker of the k-th parsed record;
\* and getDataHash() with sigmaInstance = k cuts the script at that same
\* marker, keeping the chunks before its separator.
C24_ScansAgree ==
  HasTarget(Self) =>
    LET script == TargetScript(Self)
        starts == InstanceStarts(script, 1)
    IN \A k \in InstanceArgs :
         LET position == findSigmaPosition(script, k)
             cut == DataCutFrom(script, 1, 0, k)
         IN /\ (position # -1) <=> (k < countSigmaInstances(script))
            /\ cut.found <=> (k < countSigmaInstances(script))
            /\ (NoPayload(script) /\ k < Len(starts)) =>
                 /\ position = starts[k + 1] - 1
                 /\ cut.chunks = BeforeSeparator(script, starts[k + 1])

\* the caller's changes of the inputs, and the calls that recompute the hashes
InputEdits == {"insertInput", "changeOutpoint"}
Recomputing == {"construct", "setHashes", "setSigmaInstance"}

\* C25: when the caller adds or changes an input of the wrapped transaction
\* after the context was constructed, getInputHash() reflects the change at
\* once, while getMessageHash() keeps the value derived at the last
\* constructor, setHashes or setSigmaInstance call until one of those
\* recomputes it.
C25_StaleDigestAfterEdit ==
  [][/\ last'.op \in InputEdits =>
          /\ getInputHash(Self)' =
               Sha256(OutpointOrZero(transaction',
                                     IF refVin' = -1 THEN targetVout' ELSE refVin'))
          /\ getMessageHash(Self)' = getMessageHash(Self)
     /\ last'.op \notin Recomputing => UNCHANGED <<inputHash, dataHash>>
     /\ (last.op \in Recomputing /\ last.result = "ok") =>
          getMessageHash(Self) = Sha256(getInputHash(Self) \o getDataHash(Self))]_vars

\* the caller has just changed the input the context refers to: getInputHash()
\* shows the new outpoint and getMessageHash() is still the digest of the old
\* one
C25_Witness ==
  /\ last.op \in InputEdits
  /\ getInputHash(Self) # inputHash
  /\ HasTarget(Self)
  /\ getMessageHash(Self) # Sha256(getInputHash(Self) \o getDataHash(Self))

\* the attempt with recoveryId id neither raises nor fails: the recovered
\* key validates the signature and derives the claimed address
Qualifies(core, message, address, id) ==
  /\ ~RecoverThrows(core, id, message)
  /\ BsmVerify(message, core, RecoverPublicKey(core, id, message))
  /\ ToAddress(RecoverPublicKey(core, id, message)) = address

\* the selected record is a BSM record whose signature fromCompact accepts
SelectedBsm(c) ==
  /\ HasTarget(c)
  /\ sig(c).some
  /\ sig(c).algorithm = AlgBSM
  /\ HashesSet(c)
  /\ IsBase64(sig(c).signature)
  /\ IsCompact(FromBase64(sig(c).signature))

\* C26: brute-force recovery tries recoveryId 0, 1, 2, 3 in that order, at
\* most four attempts; it returns the first id whose recovered public key
\* both validates the signature and derives the claimed address; an attempt
\* that raises is skipped without aborting the search; when no id qualifies
\* it returns -1 and verify() returns false rather than raising.
C26_BruteForceRecovery ==
  SelectedBsm(Self) =>
    LET core == FromCompact(FromBase64(sig(Self).signature))
        message == getMessageHash(Self)
        address == sig(Self).address
        found == deduceRecovery(core, message, address)
    IN /\ found \in -1..3
       /\ found # -1 =>
            /\ Qualifies(core, message, address, found)
            /\ \A id \in 0..3 : id < found => ~Qualifies(core, message, address, id)
            /\ verify(Self, Undefined) = "true"
       /\ found = -1 =>
            /\ \A id \in 0..3 : ~Qualifies(core, message, address, id)
            /\ verify(Self, Undefined) = "false"

\* a verify has just returned true on a signature whose recoveryId is 1: the
\* attempt with id 0 was made first and failed
C26_Witness ==
  /\ last = Did("verify", "true")
  /\ SelectedBsm(Self)
  /\ deduceRecovery(FromCompact(FromBase64(sig(Self).signature)),
                    getMessageHash(Self), sig(Self).address) = 1

\* a verify has just returned false on a well-formed signature: no id
\* qualified, the ids that raise included
C26_WitnessNone ==
  /\ last = Did("verify", "false")
  /\ SelectedBsm(Self)
  /\ \E id \in 0..3 :
       RecoverThrows(FromCompact(FromBase64(sig(Self).signature)), id,
                     getMessageHash(Self))

\* the context over the same transaction with the target script replaced,
\* selecting instance k
OverScript(c, script, k) ==
  setHashes([c EXCEPT !.transaction.outputs[c.targetVout + 1].lockingScript = script,
                      !.sigmaInstance = k])

\* C27: a later signature covers the earlier ones: for every script holding
\* instances 0 and 1, in the inline and in the nested encoding alike,
\* getDataHash() for instance 1 covers the fields of instance 0, so changing
\* any field of instance 0 changes the data hash of instance 1 and makes a
\* verify() of instance 1 that returned true return false.
C27_LaterCoversEarlier ==
  HasTarget(Self) =>
    LET content == Flatten(TargetScript(Self))
        starts == InstanceStarts(content, 1)
    IN Len(starts) >= 2 =>
         \A form \in Forms : \A d \in 1..4 :
           LET script == InForm(form, content)
               changed == InForm(form, Alter(content, starts[1] + d))
           IN /\ DataHashOf(changed, 1) # DataHashOf(script, 1)
              /\ verify(OverScript(Self, script, 1), Undefined) = "true"
                   => verify(OverScript(Self, changed, 1), Undefined) = "false"

\* C28: after sign or remoteSign returns a record R (address, signature,
\* algorithm, vin, targetVout), the context's sig getter returns a record
\* equal to R: the instance parsed back from the new script at index
\* sigmaInstance is the one that was just written, for every sigmaInstance
\* the context may hold.
C28_SigIsReturnedRecord ==
  JustSignedAny =>
    /\ returned.sig.some
    /\ sig(Self) = returned.sig
    /\ parseSigmaInstances(TargetScript(Self), targetVout)[sigmaInstance + 1]
         = returned.sig

\* C29: if sign, setSigmaInstance, setTargetVout or a change of the inputs
\* happens on the same context while a remoteSign call is suspended, the
\* digest that was sent to the signer is still the digest of the context the
\* signature is finally written to (before being the context as the response
\* found it).
C29_SuspendedDigestStillCurrent ==
  last = Did("remoteSign", "ok") => returned.message = getMessageHash(before)

\* C30: a signed instance verifies on any context that selects it, whatever
\* refVin that context was constructed with: an instance that verifies on a
\* fresh context with the signer's refVin verifies on a fresh context with
\* every other refVin, the default 0 included, and the stored vin of an
\* instance signed with refVin = -1 is the resolved index targetVout.
C30_VerifyBindsToStoredVin ==
  (JustSigned /\ verify(FreshOverReturned, Undefined) = "true") =>
    /\ returned.sig.vin = (IF refVin = -1 THEN targetVout ELSE refVin)
    /\ \A r \in RefVinArgs :
         verify(Constructed(returned.signedTx, targetVout, sigmaInstance, r),
                Undefined) = "true"

====
